---- MODULE Spec2Model ----
(***************************************************************************)
(* A model of the WeatherAPI integration: the data coordinator             *)
(* (custom_components/weatherapi/coordinator.py), the API key validators   *)
(* (coordinator.py and config_flow.py), the user step of the config flow,  *)
(* the host's refresh of the coordinator's snapshot, and the parsers       *)
(* called on their own.                                                    *)
(*                                                                         *)
(* Python values are modelled as follows.                                  *)
(*   None / a value v      the sequences <<>> and <<v>>                    *)
(*   a dict                a function whose DOMAIN is the set of keys      *)
(*   a list                a sequence                                      *)
(*   a JSON scalar         [kind |-> "int" | "text", v |-> Int]: a number  *)
(*                         in hundredths, or a text that is not a number   *)
(*   an instant            an epoch in ticks of half an hour               *)
(***************************************************************************)
EXTENDS Integers, Sequences, FiniteSets, TLC

VARIABLES
    config,       \* WeatherAPIUpdateCoordinatorConfig: forecast, ignore_past_forecast
    host_tz,      \* hass.config.time_zone, also the zone of the process clock
    data,         \* DataUpdateCoordinator.data: None or the last good snapshot
    forecast_tz,  \* WeatherAPIUpdateCoordinator._forecast_tz
    pc,           \* position of the running get_weather: idle, requested, decoding
    response,     \* the HTTP exchange of the current / last get_weather
    now,          \* the process clock read by the current / last get_weather
    outcome,      \* what the last get_weather did: returned a value or raised
    requests,     \* HTTP requests issued by the current / last get_weather
    calls,        \* parsers run by the current / last get_weather
    log,          \* records logged by the current / last get_weather
    succeeded,    \* history: some get_weather has returned a snapshot
    vkey,         \* is_valid_api_key: the credential under validation
    vimpl,        \* is_valid_api_key: which of the two implementations runs
    vpc,          \* is_valid_api_key: idle, requested, decoding
    vresponse,    \* is_valid_api_key: the HTTP exchange of the probe
    voutcome,     \* is_valid_api_key: what the last call did
    vrequests,    \* is_valid_api_key: HTTP requests issued by the current / last call
    flow_pc,      \* async_step_user: idle, or awaiting is_valid_api_key
    flow_outcome, \* async_step_user: what the is_valid_api_key it awaited did
    flow_result,  \* async_step_user: how the last user step ended
    call,         \* a parser or helper called on its own: its arguments and result
    inv,          \* get_weather invocations that may overlap on one coordinator
    entry,        \* the config entry: its data and its options
    entry_pc,     \* where the entry is in its setup and unload
    hass_data,    \* hass.data[DOMAIN]: the entry ids that hold a coordinator
    platforms,    \* the platforms set up for the entry
    ent_reg       \* the entity registry: unique ids of the sensor entities

vars == <<config, host_tz, data, forecast_tz, pc, response, now, outcome,
          requests, calls, log, succeeded, vkey, vimpl, vpc, vresponse, voutcome, vrequests,
          flow_pc, flow_outcome, flow_result, call, inv,
          entry, entry_pc, hass_data, platforms, ent_reg>>

fetchVars == <<config, host_tz, data, forecast_tz, pc, response, now, outcome,
               requests, calls, log, succeeded>>

validateVars == <<vkey, vimpl, vpc, vresponse, voutcome, vrequests,
                  flow_pc, flow_outcome, flow_result>>

probeVars == <<vkey, vimpl, vrequests>>

pureVars == <<call>>

overlapVars == <<inv>>

entryVars == <<entry, entry_pc, hass_data, platforms, ent_reg>>

----------------------------------------------------------------------------
(* Python values *)

None == <<>>

Some(v) == <<v>>

IsNone(o) == Len(o) = 0

Val(o) == o[1]

EmptyDict == [k \in {} |-> 0]

\* dict.get(key): the value under key, None when the key is missing
Get(d, k) == IF k \in DOMAIN d THEN Some(d[k]) ELSE None

\* dict.get(key, {}) for a key that holds a dict
GetDict(d, k) == IF k \in DOMAIN d THEN d[k] ELSE EmptyDict

\* truth value of an optional dict: None and {} are false
TruthyDict(o) == ~IsNone(o) /\ DOMAIN Val(o) # {}

\* truth value of an optional list: None and [] are false
TruthyList(o) == ~IsNone(o) /\ Len(Val(o)) > 0

Int100(n) == [kind |-> "int", v |-> n * 100]

Num(h) == [kind |-> "int", v |-> h]

Text == [kind |-> "text", v |-> 0]

----------------------------------------------------------------------------
(* Value coercion utilities *)

\* round(float(value), 1): hundredths to tenths, to the nearest tenth
Round1(h) == IF h >= 0 THEN (h + 5) \div 10 ELSE -((5 - h) \div 10)

to_float(value) ==
    IF IsNone(value) THEN None
    ELSE IF Val(value).kind = "int" THEN Some(Round1(Val(value).v))
    ELSE None

\* int(value): truncation towards zero of a number given in hundredths
Trunc(h) == IF h >= 0 THEN h \div 100 ELSE -((-h) \div 100)

to_int(value) ==
    IF IsNone(value) THEN None
    ELSE IF Val(value).kind = "int" THEN Some(Trunc(Val(value).v))
    ELSE None

\* to_int(json.get("is_day", "1")) == 1
IsDay(d) ==
    LET raw == IF "is_day" \in DOMAIN d THEN Some(d["is_day"]) ELSE Some(Int100(1))
    IN  to_int(raw) = Some(1)

----------------------------------------------------------------------------
(* Condition classifier *)

\* the keys of CONDITION_MAP in the order of the dict literal
CONDITION_KEYS ==
    << "cloudy", "fog", "hail", "lightning", "lightning-rainy", "partlycloudy",
       "pouring", "rainy", "snowy", "snowy-rainy", "sunny" >>

\* the table with code 1000 under partlycloudy as well
CONDITION_MAP_Ambiguous ==
    [ k \in {CONDITION_KEYS[i] : i \in 1..Len(CONDITION_KEYS)} |->
        CASE k = "partlycloudy" -> {1000, 1003}
          [] k = "sunny" -> {1000}
          [] OTHER -> {1006} ]

\* CONDITION_MAP of const.py
CONDITION_MAP ==
    [ k \in {CONDITION_KEYS[i] : i \in 1..Len(CONDITION_KEYS)} |->
        CASE k = "cloudy" -> {1006, 1009}
          [] k = "fog" -> {1030, 1135, 1147}
          [] k = "hail" -> {1237, 1261, 1264}
          [] k = "lightning" -> {1087}
          [] k = "lightning-rainy" -> {1273, 1276}
          [] k = "partlycloudy" -> {1003}
          [] k = "pouring" -> {1192, 1195, 1243, 1246}
          [] k = "rainy" -> {1063, 1150, 1153, 1180, 1183, 1186, 1189, 1240}
          [] k = "snowy" -> {1066, 1114, 1117, 1210, 1213, 1216, 1219, 1222,
                             1225, 1279, 1282}
          [] k = "snowy-rainy" -> {1069, 1072, 1168, 1171, 1198, 1201, 1204,
                                   1207, 1249, 1252, 1255, 1258}
          [] k = "sunny" -> {1000} ]

\* [k for k, v in CONDITION_MAP.items() if condition_code in v], as indexes
Matches(code) ==
    {i \in 1..Len(CONDITION_KEYS) : code \in CONDITION_MAP[CONDITION_KEYS[i]]}

\* parse_condition_code without the night reading of code 1000
parse_condition_code_NoNight(value, is_day) ==
    IF IsNone(value) THEN None
    ELSE IF Val(value).kind # "int" THEN None
    ELSE IF Matches(Trunc(Val(value).v)) = {} THEN None
    ELSE Some(CONDITION_KEYS[CHOOSE i \in Matches(Trunc(Val(value).v)) :
                  \A j \in Matches(Trunc(Val(value).v)) : i <= j])

\* parse_condition_code(value, is_day): None where int(value) or matches[0] raises
parse_condition_code(value, is_day) ==
    IF IsNone(value) THEN None
    ELSE IF Val(value).kind # "int" THEN None          \* int(value) raised
    ELSE LET condition_code == Trunc(Val(value).v)
         IN  IF condition_code = 1000
             THEN Some(IF is_day THEN "sunny" ELSE "clear-night")
             ELSE IF Matches(condition_code) = {} THEN None   \* matches[0] raised
             ELSE Some(CONDITION_KEYS[CHOOSE i \in Matches(condition_code) :
                           \A j \in Matches(condition_code) : i <= j])

----------------------------------------------------------------------------
(* Time: epochs and wall clocks in ticks of half an hour *)

\* UTC offset, in ticks, of the zones the zone database knows
ZoneOffset == ("UTC" :> 0) @@ ("Asia/Kolkata" :> 11) @@ ("America/New_York" :> -10)

\* dt_util.get_time_zone(zone): None for a name the zone database does not know
get_time_zone(zone) == IF zone \in DOMAIN ZoneOffset THEN Some(zone) ELSE None

\* datetime.now().replace(minute=0, second=0, microsecond=0).timestamp():
\* the top of the current hour of the process's wall clock, as an epoch
NowHourTs(clock, zone) ==
    LET wall == clock + ZoneOffset[zone]
    IN  (wall - (wall % 2)) - ZoneOffset[zone]

\* datetime.fromtimestamp(time_epoch, tz=tz).isoformat(): the wall clock of
\* the zone and its offset; with tz None the naive wall clock of the process
IsoFromTimestamp(time_epoch, tz, zone) ==
    IF IsNone(tz)
    THEN [wall |-> time_epoch + ZoneOffset[zone], utcoffset |-> None]
    ELSE [wall |-> time_epoch + ZoneOffset[Val(tz)],
          utcoffset |-> Some(ZoneOffset[Val(tz)])]

\* datetime_to_iso(value): a date is midnight of day value.v in the default
\* zone, given in UTC; a text parse_datetime cannot read makes as_utc(None) raise
datetime_to_iso(value, zone) ==
    IF IsNone(value) THEN [exc |-> "", value |-> None]
    ELSE IF Val(value).kind # "int" THEN [exc |-> "AttributeError", value |-> None]
    ELSE [exc |-> "",
          value |-> Some([wall |-> Val(value).v * 48 - ZoneOffset[zone],
                          utcoffset |-> Some(0)])]

----------------------------------------------------------------------------
(* Log records *)

Warning(msg, n) == [level |-> "warning", msg |-> msg, n |-> n]

Info(msg, n) == [level |-> "info", msg |-> msg, n |-> n]

----------------------------------------------------------------------------
(* Forecast parser *)

\* Forecast(...) of parse_hour_forecast, given the hour and its condition code
HourForecast(hour, condition_code, tz, zone) ==
    [condition |-> parse_condition_code(condition_code, IsDay(hour)),
     datetime |-> IsoFromTimestamp(hour["time_epoch"], tz, zone),
     precipitation_probability |-> Get(hour, "chance_of_rain"),
     native_precipitation |-> to_float(Get(hour, "precip_mm")),
     native_pressure |-> to_float(Get(hour, "pressure_mb")),
     native_temperature |-> to_float(Get(hour, "temp_c")),
     wind_bearing |-> Get(hour, "wind_dir"),
     native_wind_speed |-> to_float(Get(hour, "wind_kph")),
     reported_condition |-> condition_code]

\* parse_hour_forecast that never drops a past hour
parse_hour_forecast_KeepsPast(hour, cfg, tz, clock, zone) ==
    IF "time_epoch" \notin DOMAIN hour THEN None
    ELSE Some([ok |-> TRUE,
               entry |-> Some(HourForecast(hour, Get(GetDict(hour, "condition"), "code"),
                                           tz, zone))])

\* parse_hour_forecast(data): None, [False, None] or [True, value]
parse_hour_forecast(hour, cfg, tz, clock, zone) ==
    IF "time_epoch" \notin DOMAIN hour THEN None
    ELSE IF cfg.ignore_past_forecast /\ hour["time_epoch"] < NowHourTs(clock, zone)
    THEN Some([ok |-> FALSE, entry |-> None])
    ELSE Some([ok |-> TRUE,
               entry |-> Some(HourForecast(hour, Get(GetDict(hour, "condition"), "code"),
                                           tz, zone))])

\* the loop body appending an entry for an hour without data as well
HourStep_KeepsNoData(acc, hour_entry_tuple) ==
    IF IsNone(hour_entry_tuple)
    THEN [acc EXCEPT !.nodata = @ + 1, !.entries = Append(@, EmptyDict)]
    ELSE IF ~IsNone(Val(hour_entry_tuple).entry)
    THEN [acc EXCEPT !.entries = Append(@, Val(Val(hour_entry_tuple).entry))]
    ELSE acc

\* the body of the loop over a day's hour array, given what
\* parse_hour_forecast returned: acc is [entries, nodata]
HourStep(acc, hour_entry_tuple) ==
    IF IsNone(hour_entry_tuple)
    THEN [acc EXCEPT !.nodata = @ + 1]
    ELSE IF ~IsNone(Val(hour_entry_tuple).entry)
    THEN [acc EXCEPT !.entries = Append(@, Val(Val(hour_entry_tuple).entry))]
    ELSE acc

\* the loop over one day's hour array
RECURSIVE HourLoop(_, _, _, _, _, _, _)
HourLoop(hour_array, i, acc, cfg, tz, clock, zone) ==
    IF i > Len(hour_array) THEN acc
    ELSE HourLoop(hour_array, i + 1,
                  HourStep(acc, parse_hour_forecast(hour_array[i], cfg, tz, clock, zone)),
                  cfg, tz, clock, zone)

\* the end of the hourly branch: the day's entries and its one warning
HourlyDay(acc, r) ==
    [acc EXCEPT
       !.entries = r.entries,
       !.log = IF r.nodata > 0
               THEN Append(@, Warning("Found %d hourly forecasts for %s with no data", r.nodata))
               ELSE @]

\* Forecast(...) of the daily branch, given the day aggregate and the date
DayForecast(d, iso) ==
    IF iso.exc # "" THEN [exc |-> iso.exc, entry |-> None]
    ELSE [exc |-> "",
          entry |-> Some(
            [condition |-> parse_condition_code(Get(GetDict(d, "condition"), "code"), IsDay(d)),
             datetime |-> iso.value,
             precipitation_probability |-> Get(d, "daily_chance_of_rain"),
             native_precipitation |-> to_float(Get(d, "totalprecip_mm")),
             native_temperature |-> to_float(Get(d, "maxtemp_c")),
             native_templow |-> to_float(Get(d, "mintemp_c")),
             naive_wind_speed |-> to_float(Get(d, "maxwind_kph")),
             reported_condition |-> Get(GetDict(d, "condition"), "code")])]

\* the daily branch of the loop body: one entry from the day's aggregate
DayEntry(forecastday, zone) ==
    IF "day" \notin DOMAIN forecastday
    THEN [exc |-> "AttributeError", entry |-> None]   \* None.get
    ELSE DayForecast(forecastday["day"], datetime_to_iso(Get(forecastday, "date"), zone))

\* the end of the daily branch: the entry is appended, or its exception raised
DailyDay(acc, e) ==
    IF e.exc # "" THEN [acc EXCEPT !.exc = e.exc]
    ELSE [acc EXCEPT !.entries = Append(@, Val(e.entry))]

\* the body of the loop over forecastday_array: acc is [exc, entries, log]
DayStep(acc, forecastday, hourly_forecast, cfg, tz, clock, zone) ==
    IF hourly_forecast
    THEN IF "hour" \notin DOMAIN forecastday
         THEN [acc EXCEPT !.exc = "TypeError"]   \* for ... in None
         ELSE HourlyDay(acc, HourLoop(forecastday["hour"], 1,
                                      [entries |-> acc.entries, nodata |-> 0],
                                      cfg, tz, clock, zone))
    ELSE DailyDay(acc, DayEntry(forecastday, zone))

\* the loop over forecastday_array; an exception raised by the body ends it
RECURSIVE DayLoop(_, _, _, _, _, _, _, _)
DayLoop(forecastday_array, i, acc, hourly_forecast, cfg, tz, clock, zone) ==
    IF i > Len(forecastday_array) \/ acc.exc # "" THEN acc
    ELSE DayLoop(forecastday_array, i + 1,
                 DayStep(acc, forecastday_array[i], hourly_forecast, cfg, tz, clock, zone),
                 hourly_forecast, cfg, tz, clock, zone)

\* the end of parse_forecast: the info record and the entries
LoadedForecast(r) ==
    IF r.exc # "" THEN r
    ELSE [r EXCEPT !.log = Append(@, Info("Loaded %s forecast values for %s", Len(r.entries)))]

\* parse_forecast with one warning for every forecast without days
parse_forecast_OneWarning(json, hourly_forecast, cfg, tz, clock, zone) ==
    IF ~TruthyDict(json) \/ ~TruthyList(Get(Val(json), "forecastday"))
    THEN [exc |-> "", entries |-> <<>>, log |-> <<Warning("No forecast data received", 0)>>]
    ELSE LoadedForecast(DayLoop(Val(json)["forecastday"], 1,
                                [exc |-> "", entries |-> <<>>, log |-> <<>>],
                                hourly_forecast, cfg, tz, clock, zone))

\* parse_forecast(json, hourly_forecast): [exc, entries, log]
parse_forecast(json, hourly_forecast, cfg, tz, clock, zone) ==
    IF ~TruthyDict(json)
    THEN [exc |-> "", entries |-> <<>>, log |-> <<Warning("No forecast data received", 0)>>]
    ELSE IF ~TruthyList(Get(Val(json), "forecastday"))
    THEN [exc |-> "", entries |-> <<>>,
          log |-> <<Warning("No day forecast found in data", 0)>>]
    ELSE LoadedForecast(DayLoop(Val(json)["forecastday"], 1,
                                [exc |-> "", entries |-> <<>>, log |-> <<>>],
                                hourly_forecast, cfg, tz, clock, zone))

----------------------------------------------------------------------------
(* Current-conditions parser *)

\* the keys of the mapping parse_current builds from a current block
CurrentKeys ==
    { "humidity", "temperature", "pressure", "wind_speed", "wind_bearing",
      "visibility", "uv", "reported_condition", "condition", "ozone",
      "carbon_monoxide", "nitrogen_dioxide", "particulate_matter_10",
      "particulate_matter_2_5", "sulphur_dioxide", "gb-defra-index",
      "us-epa-index" }

\* the mapping parse_current returns for a current block that is not empty
CurrentMapping(j, condition_code, air_quality) ==
    [k \in CurrentKeys |->
       CASE k = "humidity" -> to_float(Get(j, "humidity"))
         [] k = "temperature" -> to_float(Get(j, "temp_c"))
         [] k = "pressure" -> to_float(Get(j, "pressure_mb"))
         [] k = "wind_speed" -> to_float(Get(j, "wind_kph"))
         [] k = "wind_bearing" -> Get(j, "wind_degree")
         [] k = "visibility" -> to_float(Get(j, "vis_km"))
         [] k = "uv" -> to_float(Get(j, "uv"))
         [] k = "reported_condition" -> condition_code
         [] k = "condition" -> parse_condition_code(condition_code, IsDay(j))
         [] k = "ozone" -> to_float(Get(air_quality, "o3"))
         [] k = "carbon_monoxide" -> to_float(Get(air_quality, "co"))
         [] k = "nitrogen_dioxide" -> to_float(Get(air_quality, "no2"))
         [] k = "particulate_matter_10" -> to_float(Get(air_quality, "so2"))
         [] k = "particulate_matter_2_5" -> to_float(Get(air_quality, "pm2_5"))
         [] k = "sulphur_dioxide" -> to_float(Get(air_quality, "pm10"))
         [] k = "gb-defra-index" -> to_int(Get(air_quality, "gb-defra-index"))
         [] k = "us-epa-index" -> to_int(Get(air_quality, "us-epa-index"))]

\* parse_current(json): [value, log]
parse_current(json) ==
    IF ~TruthyDict(json)
    THEN [value |-> EmptyDict, log |-> <<Warning("No current data received", 0)>>]
    ELSE [value |-> CurrentMapping(Val(json),
                                   Get(GetDict(Val(json), "condition"), "code"),
                                   GetDict(Val(json), "air_quality")),
          log |-> <<>>]

----------------------------------------------------------------------------
(* Outcomes of a call *)

NoOutcome == [kind |-> "none", exc |-> "", cause |-> "", value |-> None]

Returned(v) == [kind |-> "returned", exc |-> "", cause |-> "", value |-> Some(v)]

Raised(exc, cause) == [kind |-> "raised", exc |-> exc, cause |-> cause, value |-> None]

----------------------------------------------------------------------------
(* Weather fetcher: get_weather *)

\* get_weather_status without the status check
get_weather_status_AnyStatus(resp) ==
    IF resp.transport = "timeout" THEN Raised("UpdateFailed", "TimeoutError")
    ELSE IF resp.transport = "client_error" THEN Raised("UpdateFailed", "ClientError")
    ELSE NoOutcome

\* get_weather_status without the except clause for aiohttp.ClientError
get_weather_status_Uncaught(resp) ==
    IF resp.transport = "timeout" THEN Raised("UpdateFailed", "TimeoutError")
    ELSE IF resp.transport = "client_error" THEN Raised("ClientError", "")
    ELSE IF resp.status # 200 THEN Raised("UpdateFailed", "")
    ELSE NoOutcome

\* get_weather_status raising the validator's exception on a timeout
get_weather_status_CannotConnect(resp) ==
    IF resp.transport = "timeout" THEN Raised("CannotConnect", "TimeoutError")
    ELSE IF resp.transport = "client_error" THEN Raised("UpdateFailed", "ClientError")
    ELSE IF resp.status # 200 THEN Raised("UpdateFailed", "")
    ELSE NoOutcome

\* get_weather from the return of session.get to the status check: the
\* exception raised there, or NoOutcome when the body is awaited next
get_weather_status(resp) ==
    IF resp.transport = "timeout" THEN Raised("UpdateFailed", "TimeoutError")
    ELSE IF resp.transport = "client_error" THEN Raised("UpdateFailed", "ClientError")
    ELSE IF resp.status # 200 THEN Raised("UpdateFailed", "")
    ELSE NoOutcome

\* populate_time_zone(zone)
populate_time_zone(zone) == get_time_zone(zone)

\* what a get_weather that ends without touching the coordinator leaves
Failed(o, tz) == [outcome |-> o, forecast_tz |-> tz, calls |-> {}, log |-> <<>>]

\* Assemble adding the forecast keys only when forecasting is on
Assemble_NoForecastKeys(cfg, new_tz, current, daily, hourly) ==
    IF ~cfg.forecast
    THEN [outcome |-> Returned(current.value),
          forecast_tz |-> new_tz,
          calls |-> {"parse_current"},
          log |-> current.log]
    ELSE IF daily.exc # ""
    THEN [outcome |-> Raised(daily.exc, ""),
          forecast_tz |-> new_tz,
          calls |-> {"parse_current", "parse_forecast_daily"},
          log |-> current.log \o daily.log]
    ELSE [outcome |-> IF hourly.exc # "" THEN Raised(hourly.exc, "")
                      ELSE Returned(current.value
                                    @@ ("daily_forecast" :> Some(daily.entries))
                                    @@ ("hourly_forecast" :> Some(hourly.entries))),
          forecast_tz |-> new_tz,
          calls |-> {"parse_current", "parse_forecast_daily", "parse_forecast_hourly"},
          log |-> current.log \o daily.log \o hourly.log]

\* the result mapping and the end of get_weather, given what the parsers did;
\* an exception raised by the daily parse ends get_weather before the hourly one
Assemble(cfg, new_tz, current, daily, hourly) ==
    IF ~cfg.forecast
    THEN [outcome |-> Returned(current.value @@ ("daily_forecast" :> None)
                                             @@ ("hourly_forecast" :> None)),
          forecast_tz |-> new_tz,
          calls |-> {"parse_current"},
          log |-> current.log]
    ELSE IF daily.exc # ""
    THEN [outcome |-> Raised(daily.exc, ""),
          forecast_tz |-> new_tz,
          calls |-> {"parse_current", "parse_forecast_daily"},
          log |-> current.log \o daily.log]
    ELSE [outcome |-> IF hourly.exc # "" THEN Raised(hourly.exc, "")
                      ELSE Returned(current.value
                                    @@ ("daily_forecast" :> Some(daily.entries))
                                    @@ ("hourly_forecast" :> Some(hourly.entries))),
          forecast_tz |-> new_tz,
          calls |-> {"parse_current", "parse_forecast_daily", "parse_forecast_hourly"},
          log |-> current.log \o daily.log \o hourly.log]

\* get_weather after populate_time_zone: the three parses
ParseBody(json_data, cfg, new_tz, clock, zone) ==
    Assemble(cfg, new_tz,
             parse_current(Get(json_data, "current")),
             parse_forecast(Get(json_data, "forecast"), FALSE, cfg, new_tz, clock, zone),
             parse_forecast(Get(json_data, "forecast"), TRUE, cfg, new_tz, clock, zone))

\* location.get("tz_id", self.hass.config.time_zone)
ZoneOf(json_data, zone) ==
    IF "tz_id" \in DOMAIN GetDict(json_data, "location")
    THEN json_data["location"]["tz_id"] ELSE zone

\* get_weather_body without the check of the vendor's error object
get_weather_body_NoErrorCheck(body, cfg, tz, clock, zone) ==
    CASE body.kind = "read_timeout" -> Failed(Raised("UpdateFailed", "TimeoutError"), tz)
      [] body.kind = "read_error" -> Failed(Raised("UpdateFailed", "ClientError"), tz)
      [] body.kind = "undecodable" -> Failed(Raised("JSONDecodeError", ""), tz)
      [] body.kind = "absent" -> Failed(Raised("UpdateFailed", ""), tz)
      [] body.kind = "array" -> Failed(Raised("AttributeError", ""), tz)
      [] body.kind = "object" ->
           ParseBody(body.json, cfg, populate_time_zone(ZoneOf(body.json, zone)), clock, zone)

\* get_weather_body returning None, instead of raising, when it has no data
get_weather_body_ReturnsNone(body, cfg, tz, clock, zone) ==
    CASE body.kind = "read_timeout" -> Failed(Raised("UpdateFailed", "TimeoutError"), tz)
      [] body.kind = "read_error" -> Failed(Raised("UpdateFailed", "ClientError"), tz)
      [] body.kind = "undecodable" -> Failed(Raised("JSONDecodeError", ""), tz)
      [] body.kind = "absent" ->
           Failed([kind |-> "returned", exc |-> "", cause |-> "", value |-> None], tz)
      [] body.kind = "array" -> Failed(Raised("AttributeError", ""), tz)
      [] body.kind = "object" ->
           IF TruthyDict(Get(body.json, "error"))
           THEN Failed(Raised("UpdateFailed", ""), tz)
           ELSE ParseBody(body.json, cfg,
                          populate_time_zone(ZoneOf(body.json, zone)), clock, zone)

\* get_weather_body parsing the hours with the zone an earlier response left
\* in the coordinator, and storing the zone of this response afterwards
get_weather_body_StaleZone(body, cfg, tz, clock, zone) ==
    CASE body.kind = "read_timeout" -> Failed(Raised("UpdateFailed", "TimeoutError"), tz)
      [] body.kind = "read_error" -> Failed(Raised("UpdateFailed", "ClientError"), tz)
      [] body.kind = "undecodable" -> Failed(Raised("JSONDecodeError", ""), tz)
      [] body.kind = "absent" -> Failed(Raised("UpdateFailed", ""), tz)
      [] body.kind = "array" -> Failed(Raised("AttributeError", ""), tz)
      [] body.kind = "object" ->
           IF TruthyDict(Get(body.json, "error"))
           THEN Failed(Raised("UpdateFailed", ""), tz)
           ELSE [ParseBody(body.json, cfg, tz, clock, zone)
                    EXCEPT !.forecast_tz = populate_time_zone(ZoneOf(body.json, zone))]

\* get_weather from the return of response.json to its end:
\* [outcome, forecast_tz, calls, log]
get_weather_body(body, cfg, tz, clock, zone) ==
    CASE body.kind = "read_timeout" -> Failed(Raised("UpdateFailed", "TimeoutError"), tz)
      [] body.kind = "read_error" -> Failed(Raised("UpdateFailed", "ClientError"), tz)
      [] body.kind = "undecodable" -> Failed(Raised("JSONDecodeError", ""), tz)
      [] body.kind = "absent" -> Failed(Raised("UpdateFailed", ""), tz)
      [] body.kind = "array" -> Failed(Raised("AttributeError", ""), tz)   \* list.get
      [] body.kind = "object" ->
           IF TruthyDict(Get(body.json, "error"))
           THEN Failed(Raised("UpdateFailed", ""), tz)
           ELSE ParseBody(body.json, cfg,
                          populate_time_zone(ZoneOf(body.json, zone)), clock, zone)

----------------------------------------------------------------------------
(* The inputs: configurations, clocks and HTTP exchanges *)

\* longest forecastday array of a response
MaxDays == 2

Configs == [forecast : BOOLEAN, ignore_past_forecast : BOOLEAN]

HostZones == {"UTC"}

\* the process clock: half past an hour
Clocks == {101}

\* an optional key of a JSON object
Opt(k, o) == IF IsNone(o) THEN EmptyDict ELSE (k :> Val(o))

SeqsUpTo(S, n) == UNION {[1..m -> S] : m \in 0..n}

HourFull(e) ==
    [time_epoch |-> e, time |-> e, is_day |-> Int100(0),
     condition |-> [code |-> Int100(1000)],
     temp_c |-> Num(491), precip_mm |-> Num(0), pressure_mb |-> Num(101600),
     wind_kph |-> Num(3060), wind_dir |-> Text, chance_of_rain |-> Num(20)]

HourNoCondition(e) == [time_epoch |-> e, time |-> e, temp_c |-> Num(1226)]

DayAggregate ==
    [condition |-> [code |-> Int100(1183)], maxtemp_c |-> Num(1234),
     mintemp_c |-> Num(-166), totalprecip_mm |-> Num(17), maxwind_kph |-> Num(2268),
     daily_chance_of_rain |-> Num(8700)]

\* an element of forecastday: its date, its day aggregate, its hour array
ForecastDay(date, day, hour) == Opt("date", date) @@ Opt("day", day) @@ Opt("hour", hour)

\* the shapes of a forecast day: complete, and with one part missing or empty
ForecastDays ==
    { ForecastDay(Some(Num(3)), Some(DayAggregate), Some(<<HourFull(98), HourFull(100)>>)),
      ForecastDay(Some(Num(4)), Some(DayAggregate), Some(<<EmptyDict, HourNoCondition(102)>>)),
      ForecastDay(None, Some(DayAggregate), Some(<<>>)),
      ForecastDay(Some(Num(3)), Some(EmptyDict), Some(<<HourFull(100)>>)),
      ForecastDay(Some(Num(3)), None, Some(<<HourFull(100)>>)),
      ForecastDay(Some(Num(3)), Some(DayAggregate), None) }

\* the forecast block: missing, empty, without forecastday, with forecastday
Forecasts ==
    {None, Some(EmptyDict), Some([dummyNode |-> Int100(1)])}
    \cup {Some([forecastday |-> a]) : a \in SeqsUpTo(ForecastDays, MaxDays)}

CurrentFull ==
    [temp_c |-> Num(2137), humidity |-> Num(5300), pressure_mb |-> Num(101600),
     wind_kph |-> Num(3060), wind_degree |-> Num(19600), vis_km |-> Num(1000),
     uv |-> Num(100), is_day |-> Int100(1), condition |-> [code |-> Int100(1003)],
     air_quality |-> ("co" :> Num(23364)) @@ ("no2" :> Num(1268)) @@ ("o3" :> Num(5221))
                     @@ ("so2" :> Num(471)) @@ ("pm2_5" :> Num(836)) @@ ("pm10" :> Num(1149))
                     @@ ("us-epa-index" :> Int100(1)) @@ ("gb-defra-index" :> Int100(2))]

CurrentNoAirQuality == [temp_c |-> Num(-349), is_day |-> Int100(0),
                        condition |-> [code |-> Int100(1000)]]

Currents == {None, Some(EmptyDict), Some(CurrentFull), Some(CurrentNoAirQuality)}

Errors == {None, Some(EmptyDict), Some([code |-> Int100(2006), message |-> Text]),
           Some([message |-> Text])}

Locations == {None, Some(EmptyDict), Some([tz_id |-> "Asia/Kolkata"]),
              Some([tz_id |-> "Mars/Olympus"])}

JsonBody(error, location, current, forecast) ==
    Opt("error", error) @@ Opt("location", location) @@ Opt("current", current)
    @@ Opt("forecast", forecast)

ForecastGood == Some([forecastday |-> <<ForecastDay(Some(Num(3)), Some(DayAggregate),
                                                     Some(<<HourFull(98), HourFull(100)>>))>>])

\* the decoded bodies: every envelope with and without a forecast, and every
\* forecast under two envelopes
JsonBodies ==
    {JsonBody(e, l, c, f) : e \in Errors, l \in Locations, c \in Currents,
                            f \in {None, ForecastGood}}
    \cup {JsonBody(None, l, Some(CurrentFull), f) :
             l \in {None, Some([tz_id |-> "Asia/Kolkata"])}, f \in Forecasts}

ObjectBody(j) == [kind |-> "object", json |-> j]

OtherBody(k) == [kind |-> k, json |-> EmptyDict]

\* what awaiting response.json can give
Bodies ==
    {OtherBody(k) : k \in {"absent", "undecodable", "array", "read_error", "read_timeout"}}
    \cup {ObjectBody(j) : j \in JsonBodies}

\* the bodies a response of another status than 200 is given
ErrorStatusBodies ==
    {OtherBody("absent"), OtherBody("undecodable"),
     ObjectBody(JsonBody(Some([code |-> Int100(2006), message |-> Text]), None, None, None)),
     ObjectBody(JsonBody(None, Some([tz_id |-> "Asia/Kolkata"]), Some(CurrentFull), ForecastGood))}

Statuses == {200, 400, 404, 500}

NoResponse == [transport |-> "none", status |-> 0, body |-> OtherBody("pending")]

\* what awaiting session.get can give: an exception, or a status line whose
\* body is still to be read
Exchanges ==
    {[transport |-> t, status |-> 0, body |-> OtherBody("pending")] :
        t \in {"timeout", "client_error"}}
    \cup {[transport |-> "ok", status |-> 200, body |-> OtherBody("pending")]}
    \cup {[transport |-> "ok", status |-> s, body |-> b] :
             s \in Statuses \ {200}, b \in ErrorStatusBodies}

----------------------------------------------------------------------------
(* The host's refresh of the coordinator *)

\* DataUpdateCoordinator: a returned snapshot replaces data, a raised
\* exception leaves the previous snapshot in place
HostStore(old, out) == IF out.kind = "returned" THEN out.value ELSE old

\* _async_update_data to the await of session.get: one request is issued
StartFetch ==
    /\ pc = "idle"
    /\ pc' = "requested"
    /\ requests' = 1
    /\ response' = NoResponse
    /\ outcome' = NoOutcome
    /\ calls' = {}
    /\ log' = <<>>
    /\ UNCHANGED <<config, host_tz, data, forecast_tz, now, succeeded>>
    /\ UNCHANGED <<validateVars, pureVars, overlapVars, entryVars>>

\* ReceiveResponse issuing the request a second time after a failure
ReceiveResponse_Retry ==
    /\ pc = "requested"
    /\ \E resp \in Exchanges :
         /\ response' = resp
         /\ IF get_weather_status(resp).kind = "raised" /\ requests < 2
            THEN /\ outcome' = NoOutcome
                 /\ pc' = "requested"
                 /\ requests' = requests + 1
                 /\ data' = data
            ELSE /\ outcome' = get_weather_status(resp)
                 /\ pc' = IF get_weather_status(resp).kind = "none" THEN "decoding" ELSE "idle"
                 /\ requests' = requests
                 /\ data' = HostStore(data, get_weather_status(resp))
    /\ UNCHANGED <<config, host_tz, forecast_tz, now, calls, log, succeeded>>
    /\ UNCHANGED <<validateVars, pureVars, overlapVars, entryVars>>

\* session.get returns or raises: the status check
ReceiveResponse ==
    /\ pc = "requested"
    /\ \E resp \in Exchanges :
         /\ response' = resp
         /\ outcome' = get_weather_status(resp)
         /\ pc' = IF get_weather_status(resp).kind = "none" THEN "decoding" ELSE "idle"
         /\ data' = HostStore(data, get_weather_status(resp))
    /\ UNCHANGED <<config, host_tz, forecast_tz, now, requests, calls, log, succeeded>>
    /\ UNCHANGED <<validateVars, pureVars, overlapVars, entryVars>>

\* get_weather ends: its effects, and the host's handling of its outcome
Finish(r) ==
    /\ outcome' = r.outcome
    /\ forecast_tz' = r.forecast_tz
    /\ calls' = r.calls
    /\ log' = r.log
    /\ data' = HostStore(data, r.outcome)
    /\ succeeded' = (succeeded \/ r.outcome.kind = "returned")

\* response.json returns or raises: the rest of get_weather
ReceiveBody ==
    /\ pc = "decoding"
    /\ \E body \in Bodies, clock \in Clocks :
         /\ response' = [response EXCEPT !.body = body]
         /\ now' = clock
         /\ Finish(get_weather_body(body, config, forecast_tz, clock, host_tz))
    /\ pc' = "idle"
    /\ UNCHANGED <<config, host_tz, requests>>
    /\ UNCHANGED <<validateVars, pureVars, overlapVars, entryVars>>

----------------------------------------------------------------------------
(* get_weather invocations that overlap on one coordinator.  An invocation  *)
(* is suspended at its two awaits, session.get and response.json; what      *)
(* follows response.json runs without an await, as one step.                *)

FORECAST_URL == "forecast.json"

CURRENT_URL == "current.json"

\* Endpoint requesting the forecast whatever the configuration says
Endpoint_AlwaysForecast(cfg) == FORECAST_URL

\* FORECAST_URL if self.config.forecast else CURRENT_URL
Endpoint(cfg) == IF cfg.forecast THEN FORECAST_URL ELSE CURRENT_URL

Slots == {1, 2}

NoInvocation ==
    [pc |-> "idle", url |-> "", response |-> NoResponse, now |-> 0,
     outcome |-> NoOutcome, calls |-> {}]

OverlapLocations ==
    {None, Some([tz_id |-> "Asia/Kolkata"]), Some([tz_id |-> "America/New_York"]),
     Some([tz_id |-> "Mars/Olympus"])}

OverlapBodies ==
    {ObjectBody(JsonBody(None, l, Some(CurrentFull), f)) :
        l \in OverlapLocations, f \in {None, ForecastGood}}
    \cup {OtherBody("undecodable")}

OverlapExchanges ==
    {[transport |-> "timeout", status |-> 0, body |-> OtherBody("pending")],
     [transport |-> "ok", status |-> 200, body |-> OtherBody("pending")],
     [transport |-> "ok", status |-> 500, body |-> OtherBody("absent")]}

\* get_weather to the await of session.get: the endpoint is chosen
OverlapStart(i) ==
    /\ inv[i].pc = "idle"
    /\ inv' = [inv EXCEPT ![i] = [NoInvocation EXCEPT !.pc = "requested",
                                                      !.url = Endpoint(config)]]
    /\ UNCHANGED <<fetchVars, validateVars, pureVars, entryVars>>

\* session.get returns or raises in invocation i
OverlapResponse(i) ==
    /\ inv[i].pc = "requested"
    /\ \E resp \in OverlapExchanges :
         /\ inv' = [inv EXCEPT ![i].response = resp,
                               ![i].outcome = get_weather_status(resp),
                               ![i].pc = IF get_weather_status(resp).kind = "none"
                                         THEN "decoding" ELSE "idle"]
         /\ data' = HostStore(data, get_weather_status(resp))
    /\ UNCHANGED <<config, host_tz, forecast_tz, pc, response, now, outcome,
                   requests, calls, log, succeeded>>
    /\ UNCHANGED <<validateVars, pureVars, entryVars>>

\* OverlapFinish publishing the current conditions without the forecasts
OverlapFinish_PublishesPart(i, body, clock, r) ==
    /\ inv' = [inv EXCEPT ![i].response.body = body, ![i].now = clock,
                          ![i].outcome = r.outcome, ![i].calls = r.calls,
                          ![i].pc = "idle"]
    /\ forecast_tz' = r.forecast_tz
    /\ data' = IF r.outcome.kind = "returned"
               THEN Some([k \in DOMAIN Val(r.outcome.value) \cap CurrentKeys |->
                             Val(r.outcome.value)[k]])
               ELSE data

\* invocation i ends with result r
OverlapFinish(i, body, clock, r) ==
    /\ inv' = [inv EXCEPT ![i].response.body = body, ![i].now = clock,
                          ![i].outcome = r.outcome, ![i].calls = r.calls,
                          ![i].pc = "idle"]
    /\ forecast_tz' = r.forecast_tz
    /\ data' = HostStore(data, r.outcome)

\* response.json returns or raises in invocation i: the rest of get_weather
OverlapBody(i) ==
    /\ inv[i].pc = "decoding"
    /\ \E body \in OverlapBodies, clock \in Clocks :
         OverlapFinish(i, body, clock,
                       get_weather_body(body, config, forecast_tz, clock, host_tz))
    /\ UNCHANGED <<config, host_tz, pc, response, now, outcome,
                   requests, calls, log, succeeded>>
    /\ UNCHANGED <<validateVars, pureVars, entryVars>>

----------------------------------------------------------------------------
(* API key validator: is_valid_api_key of coordinator.py ("coordinator") and *)
(* of config_flow.py ("config_flow")                                        *)

Impls == {"coordinator", "config_flow"}

ApiKeys == {None, Some(""), Some("api_key")}

\* MissingKey without the test for the empty string
MissingKey_NoneOnly(api_key) == IsNone(api_key)

\* if api_key is None or api_key == "": raise InvalidApiKey
MissingKey(api_key) == IsNone(api_key) \/ Val(api_key) = ""

\* is_valid_api_key reporting a failed connection as an invalid key
is_valid_api_key_status_InvalidKey(impl, resp) ==
    IF resp.transport \in {"timeout", "client_error"} THEN Returned(FALSE)
    ELSE IF impl = "config_flow" /\ resp.status # 200 THEN Returned(FALSE)
    ELSE NoOutcome

\* is_valid_api_key from the return of session.get to the await of
\* response.json: config_flow.py checks the status first, coordinator.py decodes
\* the body of every response
is_valid_api_key_status(impl, resp) ==
    IF resp.transport = "timeout" THEN Raised("CannotConnect", "TimeoutError")
    ELSE IF resp.transport = "client_error" THEN Raised("CannotConnect", "ClientError")
    ELSE IF impl = "config_flow" /\ resp.status # 200 THEN Returned(FALSE)
    ELSE NoOutcome

\* is_valid_api_key looking for the error code alone
is_valid_api_key_body_CodeOnly(impl, status, body) ==
    CASE body.kind \in {"read_timeout", "read_error", "content_type"} ->
           Raised("CannotConnect", "ClientError")
      [] body.kind = "undecodable" -> Raised("JSONDecodeError", "")
      [] body.kind \in {"absent", "array"} -> Raised("AttributeError", "")
      [] body.kind = "object" ->
           IF "code" \in DOMAIN GetDict(body.json, "error") THEN Returned(FALSE)
           ELSE IF impl = "coordinator" /\ status # 200 THEN Returned(FALSE)
           ELSE Returned(TRUE)

\* is_valid_api_key from the return of response.json to its end
is_valid_api_key_body(impl, status, body) ==
    CASE body.kind = "read_timeout" -> Raised("CannotConnect", "TimeoutError")
      [] body.kind = "read_error" -> Raised("CannotConnect", "ClientError")
      [] body.kind = "content_type" -> Raised("CannotConnect", "ClientError")
      [] body.kind = "undecodable" -> Raised("JSONDecodeError", "")
      [] body.kind = "absent" -> Raised("AttributeError", "")    \* None.get
      [] body.kind = "array" -> Raised("AttributeError", "")     \* list.get
      [] body.kind = "object" ->
           IF TruthyDict(Get(body.json, "error")) THEN Returned(FALSE)
           ELSE IF impl = "coordinator" /\ status # 200 THEN Returned(FALSE)
           ELSE Returned(TRUE)

\* what awaiting response.json can give the validator
ProbeBodies ==
    {OtherBody(k) : k \in {"absent", "undecodable", "array", "read_error",
                           "read_timeout", "content_type"}}
    \cup {ObjectBody(JsonBody(e, l, None, None)) :
             e \in Errors, l \in {None, Some([tz_id |-> "America/New_York"])}}

ProbeStatuses == {200, 401, 403, 404}

\* what awaiting session.get can give the validator; a response that
\* config_flow.py does not read comes with the body it carries, and reading
\* can fail only where the body is read
ProbeExchanges(impl) ==
    {[transport |-> t, status |-> 0, body |-> OtherBody("pending")] :
        t \in {"timeout", "client_error"}}
    \cup {[transport |-> "ok", status |-> s, body |-> OtherBody("pending")] :
             s \in IF impl = "config_flow" THEN {200} ELSE ProbeStatuses}
    \cup {[transport |-> "ok", status |-> s, body |-> b] :
             s \in IF impl = "config_flow" THEN ProbeStatuses \ {200} ELSE {},
             b \in {x \in ProbeBodies : x.kind \notin {"read_timeout", "read_error"}}}

\* how a user step can end; errors is errors["base"], "" when errors is empty
NoFlowResult == [type |-> "none", errors |-> ""]

ShowForm(errors) == [type |-> "form", errors |-> errors]

CreateEntry == [type |-> "create_entry", errors |-> ""]

Abort(reason) == [type |-> "abort", errors |-> reason]

\* async_step_user creating the entry whatever is_valid_api_key returns
async_step_user_result_AlwaysCreate(o) ==
    IF o.kind = "returned" THEN CreateEntry
    ELSE IF o.exc = "CannotConnect" THEN ShowForm("cannot_connect")
    ELSE ShowForm("unknown")

\* async_step_user from the return of is_valid_api_key to its end
async_step_user_result(o) ==
    IF o.kind = "returned"
    THEN (IF Val(o.value) THEN CreateEntry ELSE ShowForm("invalid_api_key"))
    ELSE IF o.exc = "CannotConnect" THEN ShowForm("cannot_connect")
    ELSE ShowForm("unknown")

\* the user step resumes when the is_valid_api_key it awaits ends with o
ResumeStepUser(o) ==
    IF flow_pc = "awaiting" /\ o.kind # "none"
    THEN /\ flow_outcome' = o
         /\ flow_result' = async_step_user_result(o)
         /\ flow_pc' = "idle"
    ELSE UNCHANGED <<flow_pc, flow_outcome, flow_result>>

\* the user's input: nothing yet (the form is first shown), or the form's
\* fields; configured tells whether the location already has an entry
UserInputs ==
    {None} \cup {Some([api_key |-> k, configured |-> c]) :
                    k \in {"", "api_key"}, c \in BOOLEAN}

\* async_step_user to the await of session.get in is_valid_api_key
StepUser ==
    /\ vpc = "idle"
    /\ flow_pc = "idle"
    /\ \E user_input \in UserInputs :
         IF IsNone(user_input)
         THEN /\ flow_result' = ShowForm("")
              /\ flow_outcome' = NoOutcome
              /\ UNCHANGED <<flow_pc, vkey, vimpl, vpc, voutcome, vrequests, vresponse>>
         ELSE IF Val(user_input).configured
         THEN /\ flow_result' = Abort("already_configured")
              /\ flow_outcome' = NoOutcome
              /\ UNCHANGED <<flow_pc, vkey, vimpl, vpc, voutcome, vrequests, vresponse>>
         ELSE /\ vimpl' = "config_flow"
              /\ vkey' = Some(Val(user_input).api_key)
              /\ vresponse' = NoResponse
              /\ IF MissingKey(Some(Val(user_input).api_key))
                 THEN /\ voutcome' = Raised("InvalidApiKey", "")
                      /\ vrequests' = 0
                      /\ vpc' = "idle"
                      /\ flow_pc' = "idle"
                      /\ flow_outcome' = Raised("InvalidApiKey", "")
                      /\ flow_result' = async_step_user_result(Raised("InvalidApiKey", ""))
                 ELSE /\ voutcome' = NoOutcome
                      /\ vrequests' = 1
                      /\ vpc' = "requested"
                      /\ flow_pc' = "awaiting"
                      /\ flow_outcome' = NoOutcome
                      /\ flow_result' = NoFlowResult
    /\ UNCHANGED <<fetchVars, pureVars, overlapVars, entryVars>>

\* is_valid_api_key to the await of session.get: the credential check, then
\* one request
StartValidate ==
    /\ vpc = "idle"
    /\ flow_pc = "idle"
    /\ \E impl \in Impls, api_key \in ApiKeys :
         /\ vimpl' = impl
         /\ vkey' = api_key
         /\ IF MissingKey(api_key)
            THEN /\ voutcome' = Raised("InvalidApiKey", "")
                 /\ vrequests' = 0
                 /\ vpc' = "idle"
            ELSE /\ voutcome' = NoOutcome
                 /\ vrequests' = 1
                 /\ vpc' = "requested"
    /\ vresponse' = NoResponse
    /\ UNCHANGED <<flow_pc, flow_outcome, flow_result>>
    /\ UNCHANGED <<fetchVars, pureVars, overlapVars, entryVars>>

\* session.get returns or raises
ValidateResponse ==
    /\ vpc = "requested"
    /\ \E resp \in ProbeExchanges(vimpl) :
         /\ vresponse' = resp
         /\ voutcome' = is_valid_api_key_status(vimpl, resp)
         /\ vpc' = IF is_valid_api_key_status(vimpl, resp).kind = "none"
                   THEN "decoding" ELSE "idle"
         /\ ResumeStepUser(is_valid_api_key_status(vimpl, resp))
    /\ UNCHANGED probeVars
    /\ UNCHANGED <<fetchVars, pureVars, overlapVars, entryVars>>

\* response.json returns or raises: the rest of is_valid_api_key
ValidateBody ==
    /\ vpc = "decoding"
    /\ \E body \in ProbeBodies :
         /\ vresponse' = [vresponse EXCEPT !.body = body]
         /\ voutcome' = is_valid_api_key_body(vimpl, vresponse.status, body)
         /\ ResumeStepUser(is_valid_api_key_body(vimpl, vresponse.status, body))
    /\ vpc' = "idle"
    /\ UNCHANGED probeVars
    /\ UNCHANGED <<fetchVars, pureVars, overlapVars, entryVars>>

----------------------------------------------------------------------------
(* The parsers and helpers called on their own, as the unit tests call them *)

MaxHours == 3

NoCall == [fn |-> "none"]

\* the zones of the process clock, and the values of _forecast_tz
ParseZones == DOMAIN ZoneOffset

ParseTzs == {None} \cup {Some(z) : z \in ParseZones}

\* the process clock: on the hour and half past it
ParseClocks == {100, 101}

\* an hourly entry: complete, without `time`, without `time_epoch`, empty
HourShapes == {"full", "no_time", "no_time_epoch", "empty"}

HourOf(shape, e) ==
    CASE shape = "full" -> HourFull(e)
      [] shape = "no_time" -> [time_epoch |-> e, temp_c |-> Num(1226)]
      [] shape = "no_time_epoch" -> [time |-> e, temp_c |-> Num(1226)]
      [] shape = "empty" -> EmptyDict

\* the epoch of the first entry of an hour array; the entries are an hour apart
HourBases == 97..100

HourArray(shapes, base) == [i \in 1..Len(shapes) |-> HourOf(shapes[i], base + 2 * (i - 1))]

\* forecasts of one day, over every hour array
HourlyForecasts ==
    {Some([forecastday |-> <<ForecastDay(Some(Num(3)), Some(DayAggregate),
                                         Some(HourArray(sh, b)))>>]) :
        sh \in SeqsUpTo(HourShapes, MaxHours), b \in HourBases}

\* parse_forecast(json, hourly_forecast) on a coordinator whose configuration,
\* _forecast_tz and process clock are any
ParseForecast ==
    /\ call = NoCall
    /\ \E json \in HourlyForecasts \cup Forecasts, hourly \in BOOLEAN, ignore \in BOOLEAN,
          tz \in ParseTzs, zone \in ParseZones, clock \in ParseClocks :
         call' = [fn |-> "parse_forecast", json |-> json, hourly |-> hourly,
                  ignore_past_forecast |-> ignore, tz |-> tz, zone |-> zone,
                  clock |-> clock,
                  result |-> parse_forecast(json, hourly,
                                            [forecast |-> TRUE,
                                             ignore_past_forecast |-> ignore],
                                            tz, clock, zone)]
    /\ UNCHANGED <<fetchVars, validateVars, overlapVars, entryVars>>

\* every code of the table
TableCodes == UNION {CONDITION_MAP[k] : k \in DOMAIN CONDITION_MAP}

\* condition codes: none, a text, the codes of the table, codes outside it,
\* and a number that is not whole
ConditionInputs ==
    {None, Some(Text), Some(Num(100050)), Some(Num(118399))}
    \cup {Some(Int100(c)) : c \in TableCodes \cup {0, 1001, 9999999}}

\* parse_condition_code(value, is_day)
ClassifyCondition ==
    /\ call = NoCall
    /\ \E value \in ConditionInputs, is_day \in BOOLEAN :
         call' = [fn |-> "parse_condition_code", value |-> value, is_day |-> is_day,
                  result |-> parse_condition_code(value, is_day)]
    /\ UNCHANGED <<fetchVars, validateVars, overlapVars, entryVars>>

----------------------------------------------------------------------------
(* Sensor entities: sensor.py *)

\* key and name of every sensor description, in the order of the tuple
SENSOR_DESCRIPTIONS ==
    << [key |-> "carbon_monoxide", name |-> "CO"],
       [key |-> "ozone", name |-> "Ozone"],
       [key |-> "nitrogen_dioxide", name |-> "NO2"],
       [key |-> "sulphur_dioxide", name |-> "SO2"],
       [key |-> "particulate_matter_2_5", name |-> "PM 2.5"],
       [key |-> "particulate_matter_10", name |-> "PM 1.0"],
       [key |-> "us-epa-index", name |-> "US - EPA"],
       [key |-> "gb-defra-index", name |-> "UK Defra Index"],
       [key |-> "uv", name |-> "UV index"] >>

ATTR_AIR_QUALITY_UK_DEFRA_INDEX == "gb-defra-index"

\* convert_uk_defra_index_to_band(value): comparing None with 1 is a TypeError
convert_uk_defra_index_to_band(value) ==
    IF IsNone(value) THEN [exc |-> "TypeError", band |-> None]
    ELSE IF Val(value) >= 1
    THEN [exc |-> "",
          band |-> IF Val(value) < 4 THEN Some("Low")
                   ELSE IF Val(value) < 7 THEN Some("Moderate")
                   ELSE IF Val(value) < 10 THEN Some("High")
                   ELSE Some("Very High")]
    ELSE [exc |-> "", band |-> None]

\* the end of native_value for the UK DEFRA sensor, given the band
DefraValue(value, converted) ==
    IF converted.exc # ""
    THEN [exc |-> converted.exc, value |-> None, extra_state_attributes |-> None]
    ELSE [exc |-> "", value |-> value,
          extra_state_attributes |->
              IF IsNone(converted.band) THEN None
              ELSE Some([band |-> Val(converted.band)])]

\* native_value of the sensor of key `key` over the snapshot `snapshot`:
\* what it raises or returns, and _attr_extra_state_attributes afterwards
native_value(snapshot, key) ==
    IF key = ATTR_AIR_QUALITY_UK_DEFRA_INDEX
    THEN DefraValue(IF key \in DOMAIN snapshot THEN snapshot[key] ELSE None,
                    convert_uk_defra_index_to_band(
                        IF key \in DOMAIN snapshot THEN snapshot[key] ELSE None))
    ELSE [exc |-> "",
          value |-> IF key \in DOMAIN snapshot THEN snapshot[key] ELSE None,
          extra_state_attributes |-> None]

\* largest UK DEFRA index of the current blocks
MaxDefraIndex == 11

\* current blocks: without air quality, and with every UK DEFRA index
SensorCurrents ==
    {Some(CurrentNoAirQuality)}
    \cup {Some([CurrentFull EXCEPT !.air_quality =
                    ("gb-defra-index" :> Int100(i)) @@ CurrentFull.air_quality]) :
             i \in 0..MaxDefraIndex}

\* the snapshots parse_current makes of them
SensorSnapshots == {parse_current(c).value : c \in SensorCurrents}

\* the state machine reads native_value of one sensor
ReadSensor ==
    /\ call = NoCall
    /\ \E snapshot \in SensorSnapshots, d \in DOMAIN SENSOR_DESCRIPTIONS :
         call' = [fn |-> "native_value", snapshot |-> snapshot,
                  key |-> SENSOR_DESCRIPTIONS[d].key,
                  result |-> native_value(snapshot, SENSOR_DESCRIPTIONS[d].key)]
    /\ UNCHANGED <<fetchVars, validateVars, overlapVars, entryVars>>

----------------------------------------------------------------------------
(* Entry setup and unload: __init__.py *)

PLATFORMS == {"weather", "sensor"}

NoEntry == [entry_id |-> "", data |-> EmptyDict, options |-> EmptyDict]

\* the data the config flow gives an entry
EntryData ==
    [name : {"Home", "Home UV"}, latitude : {"18.1"}, longitude : {"-77.29", "2.35"}]

\* the options of an entry: each may be missing
EntryOptions ==
    {Opt("add_sensors", a) @@ Opt("forecast", f) :
        a \in {None, Some(TRUE), Some(FALSE)}, f \in {None, Some(FALSE)}}

DEFAULT_ADD_SENSORS == TRUE

DEFAULT_FORECAST == TRUE

DEFAULT_IGNORE_PAST_HOUR == TRUE

\* entry.options.get(key, default)
Option(e, key, default) == IF key \in DOMAIN e.options THEN e.options[key] ELSE default

\* the WeatherAPIUpdateCoordinatorConfig async_setup_entry builds
EntryConfig(e) ==
    [location |-> e.data.latitude \o "," \o e.data.longitude,
     name |-> e.data.name,
     forecast |-> Option(e, "forecast", DEFAULT_FORECAST),
     ignore_past_forecast |-> Option(e, "ignore_past_hour", DEFAULT_IGNORE_PAST_HOUR)]

\* generate_sensor_unique_id with the display name before the location
generate_sensor_unique_id_NameFirst(cfg, description) ==
    (cfg.name \o " " \o description.name) \o "_" \o cfg.location

\* generate_sensor_unique_id(description) of the coordinator of configuration cfg
generate_sensor_unique_id(cfg, description) ==
    cfg.location \o "_" \o (cfg.name \o " " \o description.name)

\* _unique_id of WeatherAPISensorEntity(location_name, coordinator, description)
SensorUniqueId(location_name, location, description) ==
    location \o "_" \o (location_name \o " " \o description.name)

\* sensor.async_setup_entry: one entity per description, whatever the options
SensorEntities(e, cfg) ==
    {SensorUniqueId(e.data.name, cfg.location, SENSOR_DESCRIPTIONS[d]) :
        d \in DOMAIN SENSOR_DESCRIPTIONS}

\* the registry after the loop that removes the entry's sensors
RemoveSensors(reg, cfg) ==
    reg \ {generate_sensor_unique_id(cfg, SENSOR_DESCRIPTIONS[d]) :
              d \in DOMAIN SENSOR_DESCRIPTIONS}

\* get_weather as the first refresh awaits it, on a new coordinator
FirstRefresh(resp, body, cfg, clock, zone) ==
    IF get_weather_status(resp).kind # "none"
    THEN Failed(get_weather_status(resp), None)
    ELSE get_weather_body(body, cfg, None, clock, zone)

\* the config flow creates the entry
AddEntry ==
    /\ entry_pc = "none"
    /\ \E d \in EntryData :
         entry' = [entry_id |-> "id1", data |-> d, options |-> EmptyDict]
    /\ entry_pc' = "not_loaded"
    /\ UNCHANGED <<hass_data, platforms, ent_reg>>
    /\ UNCHANGED <<fetchVars, validateVars, pureVars, overlapVars>>

\* async_setup_entry to the await of the first refresh: a new coordinator is
\* built from the entry's data and options
SetupEntry ==
    /\ entry_pc \in {"not_loaded", "setup_retry"}
    /\ \E o \in EntryOptions :
         /\ entry' = [entry EXCEPT !.options = o]
         /\ config' = EntryConfig([entry EXCEPT !.options = o])
    /\ data' = None
    /\ forecast_tz' = None
    /\ entry_pc' = "refreshing"
    /\ UNCHANGED <<hass_data, platforms, ent_reg>>
    /\ UNCHANGED <<host_tz, pc, response, now, outcome, requests, calls, log, succeeded>>
    /\ UNCHANGED <<validateVars, pureVars, overlapVars>>

\* SetupRefreshed storing the coordinator whatever the first refresh did
SetupRefreshed_StoresAlways(r) ==
    /\ data' = HostStore(data, r.outcome)
    /\ forecast_tz' = r.forecast_tz
    /\ hass_data' = hass_data \cup {entry.entry_id}
    /\ entry_pc' = IF r.outcome.kind = "returned" THEN "forwarding" ELSE "setup_retry"

\* the first refresh ends with r: on a failure the host raises
\* ConfigEntryNotReady out of async_setup_entry, otherwise the coordinator is
\* stored and the platforms are awaited
SetupRefreshed(r) ==
    /\ data' = HostStore(data, r.outcome)
    /\ forecast_tz' = r.forecast_tz
    /\ IF r.outcome.kind = "returned"
       THEN /\ hass_data' = hass_data \cup {entry.entry_id}
            /\ entry_pc' = "forwarding"
       ELSE /\ hass_data' = hass_data
            /\ entry_pc' = "setup_retry"

\* await coordinator.async_config_entry_first_refresh() returns or raises
RefreshEntry ==
    /\ entry_pc = "refreshing"
    /\ \E resp \in OverlapExchanges, body \in OverlapBodies, clock \in Clocks :
         SetupRefreshed(FirstRefresh(resp, body, config, clock, host_tz))
    /\ UNCHANGED <<entry, platforms, ent_reg>>
    /\ UNCHANGED <<config, host_tz, pc, response, now, outcome, requests, calls, log,
                   succeeded>>
    /\ UNCHANGED <<validateVars, pureVars, overlapVars>>

\* async_forward_entry_setups returns: the platforms are set up, the sensor
\* platform has registered its entities; then the end of async_setup_entry
ForwardEntry ==
    /\ entry_pc = "forwarding"
    /\ entry.entry_id \in hass_data
    /\ platforms' = PLATFORMS
    /\ ent_reg' = IF ~Option(entry, "add_sensors", DEFAULT_ADD_SENSORS)
                  THEN RemoveSensors(ent_reg \cup SensorEntities(entry, config), config)
                  ELSE ent_reg \cup SensorEntities(entry, config)
    /\ entry_pc' = "loaded"
    /\ UNCHANGED <<entry, hass_data>>
    /\ UNCHANGED <<fetchVars, validateVars, pureVars, overlapVars>>

\* async_unload_entry, given what async_unload_platforms answers
UnloadEntry ==
    /\ entry_pc = "loaded"
    /\ \E unload_ok \in BOOLEAN :
         IF unload_ok
         THEN /\ hass_data' = hass_data \ {entry.entry_id}
              /\ platforms' = {}
              /\ entry_pc' = "not_loaded"
         ELSE /\ hass_data' = hass_data
              /\ platforms' = platforms
              /\ entry_pc' = "failed_unload"
    /\ UNCHANGED <<entry, ent_reg>>
    /\ UNCHANGED <<fetchVars, validateVars, pureVars, overlapVars>>

Init ==
    /\ config \in Configs
    /\ host_tz \in HostZones
    /\ data = None
    /\ forecast_tz = None
    /\ pc = "idle"
    /\ response = NoResponse
    /\ now = 0
    /\ outcome = NoOutcome
    /\ requests = 0
    /\ calls = {}
    /\ log = <<>>
    /\ succeeded = FALSE
    /\ vkey = None
    /\ vimpl = "coordinator"
    /\ vpc = "idle"
    /\ vresponse = NoResponse
    /\ voutcome = NoOutcome
    /\ vrequests = 0
    /\ flow_pc = "idle"
    /\ flow_outcome = NoOutcome
    /\ flow_result = NoFlowResult
    /\ call = NoCall
    /\ inv = [i \in Slots |-> NoInvocation]
    /\ entry = NoEntry
    /\ entry_pc = "none"
    /\ hass_data = {}
    /\ platforms = {}
    /\ ent_reg = {}

Next == StartFetch \/ ReceiveResponse \/ ReceiveBody

Spec == Init /\ [][Next]_vars

NextSetup == StartValidate \/ StepUser \/ ValidateResponse \/ ValidateBody

SpecSetup == Init /\ [][NextSetup]_vars

NextParse == ParseForecast \/ ClassifyCondition \/ ReadSensor

SpecParse == Init /\ [][NextParse]_vars

NextOverlap ==
    \E i \in Slots : OverlapStart(i) \/ OverlapResponse(i) \/ OverlapBody(i)

SpecOverlap == Init /\ [][NextOverlap]_vars

NextEntry == AddEntry \/ SetupEntry \/ RefreshEntry \/ ForwardEntry \/ UnloadEntry

SpecEntry == Init /\ [][NextEntry]_vars

----------------------------------------------------------------------------
(* The claims.  A get_weather has ended when pc is idle and outcome is not  *)
(* NoOutcome; response, now, calls and log are then those of that call.     *)

Ended == pc = "idle" /\ outcome.kind # "none"

RaisedUpdateFailed == outcome.kind = "raised" /\ outcome.exc = "UpdateFailed"

\* the request timed out, at session.get or while the body was read
TimedOut == response.transport = "timeout" \/ response.body.kind = "read_timeout"

\* the request failed at transport level, at session.get or while the body was read
ConnectionFailed == response.transport = "client_error" \/ response.body.kind = "read_error"

\* the response has status 200 and its body decodes to a JSON object
OkObject ==
    response.transport = "ok" /\ response.status = 200 /\ response.body.kind = "object"

\* C1: a get_weather whose response has another status than 200 raises
\* UpdateFailed and returns no snapshot, whatever the body of the response is.
C1_BadStatusFails ==
    (Ended /\ response.transport = "ok" /\ response.status # 200)
        => (RaisedUpdateFailed /\ IsNone(outcome.value))

C1_Witness ==
    /\ Ended /\ response.status = 404 /\ response.body.kind = "object"
    /\ "current" \in DOMAIN response.body.json
    /\ RaisedUpdateFailed

C4_BadBodyFails ==
    (Ended /\ response.transport = "ok" /\ response.status = 200
           /\ response.body.kind \in {"absent", "undecodable"})
        => RaisedUpdateFailed

\* the vendor's error object of the decoded body, None when it has none
VendorError == Get(response.body.json, "error")

\* C5 as stated: a get_weather whose 200 response holds an error object raises
\* UpdateFailed and runs neither parse_current nor parse_forecast.
C5_ErrorObjectFails ==
    (Ended /\ OkObject /\ ~IsNone(VendorError))
        => (RaisedUpdateFailed /\ calls = {})

\* C5 as amended: a get_weather whose 200 response holds an error object that
\* is not empty raises UpdateFailed and runs neither parse_current nor
\* parse_forecast.
C5_PopulatedErrorFails ==
    (Ended /\ OkObject /\ TruthyDict(VendorError))
        => (RaisedUpdateFailed /\ calls = {})

C5_Witness ==
    /\ Ended /\ OkObject /\ TruthyDict(VendorError)
    /\ "code" \notin DOMAIN Val(VendorError)
    /\ "current" \in DOMAIN response.body.json
    /\ RaisedUpdateFailed /\ calls = {}

\* C6: a get_weather whose 200 response is a JSON object without a vendor error
\* returns a snapshot, whatever optional part of the body is missing; the only
\* exception a get_weather given a JSON object raises is UpdateFailed.
C6_MissingPartsNeverRaise ==
    (Ended /\ OkObject)
        => /\ ~TruthyDict(VendorError) => outcome.kind = "returned"
           /\ outcome.kind = "raised" => outcome.exc = "UpdateFailed"

\* C7: a get_weather issues exactly one HTTP request, whether it returns or
\* raises.
C7_OneRequest ==
    (pc # "idle" \/ outcome.kind # "none") => requests = 1

C7_Witness ==
    Ended /\ response.status = 500 /\ RaisedUpdateFailed /\ requests = 1

\* a step of the coordinator as the claim C8 allows it
C8_Step ==
    /\ (outcome'.kind = "returned" => (~IsNone(data') /\ data' = outcome'.value))
    /\ (outcome'.kind # "returned" => data' = data)
    /\ (~IsNone(data) => ~IsNone(data'))

\* C8: the coordinator's snapshot is None exactly as long as no fetch has
\* succeeded; a failed fetch leaves the snapshot as it was, and a snapshot that
\* is not None never becomes None again.
C8_SnapshotKept ==
    [](IsNone(data) <=> ~succeeded) /\ [][C8_Step]_vars

C8_Witness ==
    Ended /\ outcome.kind = "raised" /\ ~IsNone(data) /\ succeeded

\* the current block and the forecast block of the decoded body
CurrentBlock == Get(response.body.json, "current")

ForecastBlock == Get(response.body.json, "forecast")

UsableForecast ==
    TruthyDict(ForecastBlock) /\ TruthyList(Get(Val(ForecastBlock), "forecastday"))

ForecastKeys == {"daily_forecast", "hourly_forecast"}

\* C9 as stated: every snapshot get_weather returns holds every
\* current-conditions key and the two forecast keys.
C9_SnapshotFullyFormed ==
    (Ended /\ outcome.kind = "returned")
        => (CurrentKeys \cup ForecastKeys) \subseteq DOMAIN Val(outcome.value)

\* C9 as amended: every snapshot get_weather returns holds the two forecast
\* keys; it holds every current-conditions key when the body has a current
\* block that is not empty, and no current-conditions key otherwise; with
\* forecasting on, a forecast block that is missing, empty or without days
\* gives two empty forecast sequences.
C9_SnapshotKeys ==
    (Ended /\ outcome.kind = "returned")
        => /\ DOMAIN Val(outcome.value) =
                 ForecastKeys \cup (IF TruthyDict(CurrentBlock) THEN CurrentKeys ELSE {})
           /\ (config.forecast /\ ~UsableForecast)
                 => /\ Val(outcome.value)["daily_forecast"] = Some(<<>>)
                    /\ Val(outcome.value)["hourly_forecast"] = Some(<<>>)

C9_Witness ==
    /\ Ended /\ outcome.kind = "returned" /\ IsNone(CurrentBlock)
    /\ config.forecast /\ ~UsableForecast
    /\ DOMAIN Val(outcome.value) = ForecastKeys

\* C10: is_valid_api_key called with None or with the empty string raises
\* InvalidApiKey and issues no HTTP request.
C10_MissingKeyRejected ==
    (vkey = None \/ vkey = Some(""))
        => /\ vrequests = 0 /\ vpc = "idle" /\ vresponse = NoResponse
           /\ voutcome.kind # "none"
                => voutcome.kind = "raised" /\ voutcome.exc = "InvalidApiKey"

C10_Witness ==
    /\ vkey = Some("") /\ vimpl = "config_flow"
    /\ voutcome.exc = "InvalidApiKey" /\ vrequests = 0

----------------------------------------------------------------------------
(* The validators and the user step of the config flow *)

ValidationEnded == vpc = "idle" /\ voutcome.kind # "none"

\* the probe got a response whose body is a JSON object or absent (read or not)
ProbeAnswered ==
    /\ vresponse.transport = "ok"
    /\ vresponse.body.kind \in {"pending", "absent", "object"}

\* C11: is_valid_api_key returns false, without raising, for every response
\* whose HTTP status is not 200, whatever its body is.
C11_NonOkReturnsFalse ==
    (ValidationEnded /\ ProbeAnswered /\ vresponse.status # 200)
        => voutcome = Returned(FALSE)

\* the error object of the probe's body, None when there is none
ProbeError ==
    IF vresponse.body.kind = "object" THEN Get(vresponse.body.json, "error") ELSE None

HasErrorCode == ~IsNone(ProbeError) /\ "code" \in DOMAIN Val(ProbeError)

\* C12 as stated: for a 200 response is_valid_api_key returns false exactly
\* when the body holds an error object with an error code, true for every other
\* body.
C12_FalseIffErrorCode ==
    (ValidationEnded /\ vresponse.transport = "ok" /\ vresponse.status = 200
       /\ vresponse.body.kind = "object")
        => voutcome = Returned(~HasErrorCode)

\* C12: for a 200 response whose body is a JSON object is_valid_api_key returns
\* false exactly when the body holds an error object that is not empty, with or
\* without an error code, and true otherwise.
C12_FalseIffPopulatedError ==
    (ValidationEnded /\ vresponse.transport = "ok" /\ vresponse.status = 200
       /\ vresponse.body.kind = "object")
        => voutcome = Returned(IsNone(ProbeError) \/ Val(ProbeError) = EmptyDict)

C12_Witness ==
    /\ ValidationEnded /\ vresponse.status = 200 /\ vresponse.body.kind = "object"
    /\ ~IsNone(ProbeError) /\ DOMAIN Val(ProbeError) = {"message"}
    /\ voutcome = Returned(FALSE)

ProbeTransportFailed ==
    \/ vresponse.transport \in {"timeout", "client_error"}
    \/ vresponse.transport = "ok" /\ vresponse.body.kind \in {"read_timeout", "read_error"}

\* C13: when the probe times out or fails at transport level is_valid_api_key
\* raises CannotConnect with the failure as its cause; it returns neither true
\* nor false.
C13_ProbeFailureRaisesCannotConnect ==
    (ValidationEnded /\ ProbeTransportFailed)
        => /\ voutcome.kind = "raised" /\ voutcome.exc = "CannotConnect"
           /\ voutcome.cause =
                IF vresponse.transport = "timeout"
                   \/ (vresponse.transport = "ok" /\ vresponse.body.kind = "read_timeout")
                THEN "TimeoutError" ELSE "ClientError"

C13_Witness ==
    /\ ValidationEnded /\ vresponse.transport = "timeout"
    /\ voutcome.exc = "CannotConnect" /\ vkey = Some("api_key")

\* C14: the user step creates an entry if and only if is_valid_api_key returned
\* true; false shows invalid_api_key, CannotConnect shows cannot_connect, any
\* other exception shows unknown; the step ends in create-entry, form or abort.
C14_EntryIffValidKey ==
    /\ flow_result.type \in {"none", "form", "create_entry", "abort"}
    /\ flow_pc = "idle" =>
         /\ flow_result.type = "create_entry" <=> flow_outcome = Returned(TRUE)
         /\ flow_outcome = Returned(FALSE) => flow_result = ShowForm("invalid_api_key")
         /\ flow_outcome.kind = "raised" =>
              flow_result = ShowForm(IF flow_outcome.exc = "CannotConnect"
                                     THEN "cannot_connect" ELSE "unknown")

C14_Witness ==
    /\ flow_pc = "idle" /\ flow_result = CreateEntry
    /\ flow_outcome = Returned(TRUE) /\ vresponse.status = 200

----------------------------------------------------------------------------
(* The forecast parser and the classifier called on their own *)

\* parse_forecast was called in hourly mode on a forecast of one day that has
\* an hour array
HourlyCall ==
    /\ call.fn = "parse_forecast" /\ call.hourly
    /\ TruthyDict(call.json) /\ "forecastday" \in DOMAIN Val(call.json)
    /\ Len(Val(call.json)["forecastday"]) = 1
    /\ "hour" \in DOMAIN Val(call.json)["forecastday"][1]

Hours == Val(call.json)["forecastday"][1]["hour"]

\* the hourly entries that lack field f
Lacking(f) == {i \in 1..Len(Hours) : f \notin DOMAIN Hours[i]}

NoDataWarnings ==
    SelectSeq(call.result.log,
              LAMBDA r : r.msg = "Found %d hourly forecasts for %s with no data")

\* the day gave N - k entries and one warning carrying k, none when k is 0
CountedAs(k) ==
    /\ Len(call.result.entries) = Len(Hours) - k
    /\ NoDataWarnings =
         IF k > 0 THEN <<Warning("Found %d hourly forecasts for %s with no data", k)>>
         ELSE <<>>

Kept(i) ==
    \E j \in 1..Len(call.result.entries) :
        call.result.entries[j].datetime
            = IsoFromTimestamp(Hours[i]["time_epoch"], call.tz, call.zone)

Timed == (1..Len(Hours)) \ Lacking("time_epoch")

\* C16: an hourly entry one hour before the current time is dropped when
\* ignore_past_forecast is true and kept when it is false; with the flag false
\* every entry that has its time field is kept.
C16_PastHourFilter ==
    HourlyCall =>
        /\ \A i \in Timed :
              Hours[i]["time_epoch"] = call.clock - 2
                  => (Kept(i) <=> ~call.ignore_past_forecast)
        /\ ~call.ignore_past_forecast
              => /\ \A i \in Timed : Kept(i)
                 /\ Len(call.result.entries) = Cardinality(Timed)

C16_Witness ==
    /\ HourlyCall /\ call.ignore_past_forecast
    /\ \E i \in Timed : Hours[i]["time_epoch"] = call.clock - 2 /\ ~Kept(i)
    /\ \E i \in Timed : Kept(i)

\* C17: with ignore_past_forecast true an hourly entry is dropped if and only
\* if its epoch precedes the top of the current hour of the forecast location's
\* zone, whatever the zone of the host is.
C17_FilterInLocationZone ==
    (HourlyCall /\ call.ignore_past_forecast /\ ~IsNone(call.tz))
        => \A i \in Timed :
              ~Kept(i) <=> Hours[i]["time_epoch"] < NowHourTs(call.clock, Val(call.tz))

ClassifyCall == call.fn = "parse_condition_code"

\* the first category of the table, in its order, whose codes hold code
FirstCategory(code) ==
    CONDITION_KEYS[CHOOSE i \in 1..Len(CONDITION_KEYS) :
                      /\ code \in CONDITION_MAP[CONDITION_KEYS[i]]
                      /\ \A j \in 1..(i - 1) : code \notin CONDITION_MAP[CONDITION_KEYS[j]]]

\* C18: parse_condition_code returns None for a None code, sunny / clear-night
\* for code 1000 by day / by night, for another code the first category that
\* holds it, and None for a code in no category or that is not a number.
C18_Classification ==
    ClassifyCall =>
        call.result =
            IF IsNone(call.value) \/ Val(call.value).kind # "int" THEN None
            ELSE IF Trunc(Val(call.value).v) = 1000
            THEN Some(IF call.is_day THEN "sunny" ELSE "clear-night")
            ELSE IF Trunc(Val(call.value).v) \in TableCodes
            THEN Some(FirstCategory(Trunc(Val(call.value).v)))
            ELSE None

C18_Witness ==
    /\ ClassifyCall /\ call.value = Some(Int100(1000)) /\ ~call.is_day
    /\ call.result = Some("clear-night")

CategoriesOf(code) == {k \in DOMAIN CONDITION_MAP : code \in CONDITION_MAP[k]}

\* the code a classification was asked about, when it is a number
ClassifiedCode == Trunc(Val(call.value).v)

ClassifiedNumber == ClassifyCall /\ ~IsNone(call.value) /\ Val(call.value).kind = "int"

\* C19 as stated: code 1000 is in no category of the table and every other
\* code of the table is in exactly one.
C19_Code1000Excluded ==
    ClassifiedNumber =>
        IF ClassifiedCode = 1000 THEN CategoriesOf(ClassifiedCode) = {}
        ELSE ClassifiedCode \in TableCodes => Cardinality(CategoriesOf(ClassifiedCode)) = 1

\* C19: code 1000 is in the category sunny alone (clear-night has no entry in
\* the table) and every other code of the table is in exactly one category.
C19_CodesInOneCategory ==
    ClassifiedNumber =>
        IF ClassifiedCode = 1000 THEN CategoriesOf(ClassifiedCode) = {"sunny"}
        ELSE ClassifiedCode \in TableCodes => Cardinality(CategoriesOf(ClassifiedCode)) = 1

C19_Witness ==
    /\ ClassifyCall /\ call.value = Some(Int100(1000)) /\ call.is_day
    /\ call.result = Some("sunny")

----------------------------------------------------------------------------
(* Forecasts without days *)

\* the forecast block of the response is an object without forecastday
NoForecastday ==
    /\ OkObject /\ ~IsNone(ForecastBlock)
    /\ "forecastday" \notin DOMAIN Val(ForecastBlock)

NoDaysWarnings(msg) == SelectSeq(log, LAMBDA r : r.level = "warning" /\ r.msg = msg)

\* the fetch returned a snapshot with two empty forecasts, each parse having
\* logged msg
EmptyForecasts(msg) ==
    /\ outcome.kind = "returned"
    /\ Val(outcome.value)["daily_forecast"] = Some(<<>>)
    /\ Val(outcome.value)["hourly_forecast"] = Some(<<>>)
    /\ Len(NoDaysWarnings(msg)) = 2

\* C20 as stated: for every forecast object without forecastday, the empty
\* object included, parse_forecast returns an empty sequence and logs "No day
\* forecast found in data" in daily and in hourly mode, and the fetch returns a
\* snapshot.
C20_NoDayForecastWarning ==
    (Ended /\ NoForecastday /\ ~TruthyDict(VendorError) /\ config.forecast)
        => EmptyForecasts("No day forecast found in data")

\* C20: for a forecast object that has other keys and no forecastday
\* parse_forecast returns an empty sequence and logs "No day forecast found in
\* data", for the empty forecast object it returns an empty sequence and logs
\* "No forecast data received"; in daily and in hourly mode, and the fetch
\* returns a snapshot.
C20_NoDaysWarningByShape ==
    (Ended /\ NoForecastday /\ ~TruthyDict(VendorError) /\ config.forecast)
        => EmptyForecasts(IF Val(ForecastBlock) = EmptyDict
                          THEN "No forecast data received"
                          ELSE "No day forecast found in data")

C20_Witness ==
    /\ Ended /\ NoForecastday /\ config.forecast /\ Val(ForecastBlock) # EmptyDict
    /\ EmptyForecasts("No day forecast found in data")

-----------------------------------------------------------------------------
(* Warnings of one fetch *)

Warnings == SelectSeq(log, LAMBDA r : r.level = "warning")

ForecastWarnings == {"No forecast data received", "No day forecast found in data"}

\* C21: a fetch with forecasting on whose 200 response holds neither current
\* data nor a usable forecast returns a snapshot with empty forecasts and logs
\* exactly two warnings: first the one for the missing current data, then one
\* for the missing forecast data.
C21_TwoWarnings ==
    (Ended /\ OkObject /\ ~TruthyDict(VendorError) /\ config.forecast
           /\ ~TruthyDict(CurrentBlock) /\ ~UsableForecast)
        => /\ outcome.kind = "returned"
           /\ Val(outcome.value)["daily_forecast"] = Some(<<>>)
           /\ Val(outcome.value)["hourly_forecast"] = Some(<<>>)
           /\ Len(Warnings) = 2
           /\ Warnings[1].msg = "No current data received"
           /\ Warnings[2].msg \in ForecastWarnings

-----------------------------------------------------------------------------
(* Pollutants of the snapshot *)

\* the vendor's name of the pollutant each normalized field stands for
PollutantOf ==
    ("carbon_monoxide" :> "co") @@ ("nitrogen_dioxide" :> "no2") @@ ("ozone" :> "o3")
    @@ ("sulphur_dioxide" :> "so2") @@ ("particulate_matter_2_5" :> "pm2_5")
    @@ ("particulate_matter_10" :> "pm10")

HasAirQuality ==
    OkObject /\ TruthyDict(CurrentBlock) /\ "air_quality" \in DOMAIN Val(CurrentBlock)

\* C26: when the current block has an air-quality block, every pollutant field
\* of the snapshot carries the vendor value of that same pollutant (CO from co,
\* NO2 from no2, O3 from o3, SO2 from so2, PM2.5 from pm2_5, PM10 from pm10).
C26_PollutantFields ==
    (Ended /\ outcome.kind = "returned" /\ HasAirQuality)
        => \A k \in DOMAIN PollutantOf :
               Val(outcome.value)[k] =
                   to_float(Get(Val(CurrentBlock)["air_quality"], PollutantOf[k]))

-----------------------------------------------------------------------------
(* Invocations on one coordinator *)

InvEnded(i) == inv[i].pc = "idle" /\ inv[i].outcome.kind # "none"

InvReturned(i) == InvEnded(i) /\ inv[i].outcome.kind = "returned"

\* C22: two get_weather invocations on one coordinator, with the same
\* configuration, that were given the same response at the same clock have
\* the same outcome, whatever fetches ran before or between them.
C22_SameResponseSameResult ==
    \A i, j \in Slots :
        (InvEnded(i) /\ InvEnded(j) /\ inv[i].response = inv[j].response
                     /\ inv[i].now = inv[j].now)
            => inv[i].outcome = inv[j].outcome

\* both invocations returned a snapshot with hours for the same response, and
\* the zone that response names is the one stored
C22_Witness ==
    /\ InvReturned(1) /\ InvReturned(2)
    /\ inv[1].response = inv[2].response
    /\ config.forecast
    /\ Val(inv[2].outcome.value)["hourly_forecast"] # Some(<<>>)
    /\ inv[1].outcome = inv[2].outcome
    /\ forecast_tz = Some("America/New_York")

\* a step that changes the snapshot is the last step of an invocation that
\* returns, and the snapshot becomes the whole mapping it returns
C23_Step ==
    data' # data
        => \E i \in Slots :
              /\ inv[i].pc = "decoding" /\ inv'[i].pc = "idle"
              /\ inv'[i].outcome.kind = "returned"
              /\ data' = inv'[i].outcome.value

\* C23: the coordinator's snapshot changes only in the step that ends a
\* get_weather that returns, and becomes the whole mapping returned; while an
\* invocation runs, a reader sees the previous snapshot unchanged.
C23_AtomicPublication == [][C23_Step]_vars

\* an invocation is suspended at response.json while the snapshot an earlier
\* invocation returned is in place
C23_Witness ==
    /\ inv[2].pc = "decoding"
    /\ InvReturned(1) /\ data = inv[1].outcome.value
    /\ DOMAIN Val(data) = CurrentKeys \cup ForecastKeys

InvStarted(i) == inv[i].pc # "idle" \/ InvEnded(i)

ForecastCalls == {"parse_forecast_daily", "parse_forecast_hourly"}

\* C24: get_weather requests the forecast endpoint exactly when the forecast
\* flag is on and the current-only endpoint otherwise; with the flag off the
\* snapshot's daily and hourly forecast are None and parse_forecast is not
\* called; with the flag on both are sequences, never None.
C24_EndpointByFlag ==
    \A i \in Slots :
        /\ InvStarted(i) => (inv[i].url = FORECAST_URL <=> config.forecast)
        /\ InvStarted(i) => (inv[i].url = CURRENT_URL <=> ~config.forecast)
        /\ ~config.forecast => inv[i].calls \cap ForecastCalls = {}
        /\ (InvReturned(i) /\ ~config.forecast)
              => /\ Val(inv[i].outcome.value)["daily_forecast"] = None
                 /\ Val(inv[i].outcome.value)["hourly_forecast"] = None
        /\ (InvReturned(i) /\ config.forecast)
              => /\ ~IsNone(Val(inv[i].outcome.value)["daily_forecast"])
                 /\ ~IsNone(Val(inv[i].outcome.value)["hourly_forecast"])
                 /\ ForecastCalls \subseteq inv[i].calls

\* one invocation returned a snapshot without forecasts from the current-only
\* endpoint
C24_Witness ==
    /\ ~config.forecast /\ InvReturned(1) /\ inv[1].url = CURRENT_URL
    /\ Val(inv[1].outcome.value)["daily_forecast"] = None
    /\ inv[1].calls = {"parse_current"}

\* one invocation returned a snapshot with an empty hourly forecast from the
\* forecast endpoint
C24_WitnessForecast ==
    /\ config.forecast /\ InvReturned(1) /\ inv[1].url = FORECAST_URL
    /\ Val(inv[1].outcome.value)["hourly_forecast"] = Some(<<>>)

\* the zone the response of invocation i names, the host's when it names none
InvZone(i) ==
    LET json == inv[i].response.body.json
    IN  IF "tz_id" \in DOMAIN GetDict(json, "location")
        THEN json["location"]["tz_id"] ELSE host_tz

InvHourly(i) == Val(Val(inv[i].outcome.value)["hourly_forecast"])

\* the time_epoch values of the hours of the response of invocation i
InvEpochs(i) ==
    LET days == inv[i].response.body.json["forecast"]["forecastday"]
    IN  {days[d]["hour"][h]["time_epoch"] : d \in DOMAIN days, h \in 1..2}

-----------------------------------------------------------------------------
(* Daily mode of parse_forecast *)

\* parse_forecast was called in daily mode on a forecast with days
DailyCall ==
    /\ call.fn = "parse_forecast" /\ ~call.hourly
    /\ TruthyDict(call.json) /\ "forecastday" \in DOMAIN Val(call.json)
    /\ Val(call.json)["forecastday"] # <<>>

Days == Val(call.json)["forecastday"]

\* C25: in daily mode parse_forecast returns one entry per element of the
\* forecastday array, in the order of the array, for every forecastday array.
C25_OneEntryPerDay ==
    DailyCall
        => /\ call.result.exc = ""
           /\ Len(call.result.entries) = Len(Days)
           /\ \A d \in DOMAIN Days :
                 call.result.entries[d].datetime =
                     datetime_to_iso(Get(Days[d], "date"), call.zone).value

-----------------------------------------------------------------------------
(* The UK DEFRA sensor *)

DefraRead == call.fn = "native_value" /\ call.key = ATTR_AIR_QUALITY_UK_DEFRA_INDEX

\* the band of an index, None below 1 and for no index
BandOf(index) ==
    IF IsNone(index) \/ Val(index) < 1 THEN None
    ELSE IF Val(index) <= 3 THEN Some([band |-> "Low"])
    ELSE IF Val(index) <= 6 THEN Some([band |-> "Moderate"])
    ELSE IF Val(index) <= 9 THEN Some([band |-> "High"])
    ELSE Some([band |-> "Very High"])

\* C30: for every snapshot parse_current makes, the one of a current block
\* without air quality included, native_value of the UK DEFRA sensor returns
\* the stored index without raising, and the band attribute is Low for 1-3,
\* Moderate for 4-6, High for 7-9, Very High from 10, and None otherwise.
C30_DefraNeverRaises ==
    DefraRead
        => /\ call.result.exc = ""
           /\ call.result.value = call.snapshot[ATTR_AIR_QUALITY_UK_DEFRA_INDEX]
           /\ call.result.extra_state_attributes =
                  BandOf(call.snapshot[ATTR_AIR_QUALITY_UK_DEFRA_INDEX])

-----------------------------------------------------------------------------
(* Entry setup and unload *)

\* hass.data[DOMAIN] holds a coordinator for the entry
Stored == entry.entry_id \in hass_data

C28_Order ==
    /\ Stored => ~IsNone(data)
    /\ platforms # {} => Stored
    /\ entry_pc = "forwarding" => (Stored /\ platforms = {})
    /\ entry_pc = "setup_retry" => (~Stored /\ platforms = {})
    /\ entry_pc = "not_loaded" => ~Stored

C28_UnloadStep ==
    (entry_pc = "loaded" /\ entry_pc' # "loaded")
        => /\ (platforms' = {}) <=> (entry.entry_id \notin hass_data')
           /\ platforms' # {} => (hass_data' = hass_data /\ platforms' = platforms)
           /\ platforms' = {} => hass_data' = hass_data \ {entry.entry_id}

\* C28: the coordinator is stored in hass.data[DOMAIN] only after its first
\* refresh succeeded and before the platforms are set up; after a failed first
\* refresh nothing is stored and no platform is set up; unloading removes the
\* coordinator exactly when the platforms unloaded and otherwise changes
\* nothing; after a successful unload no coordinator is stored.
C28_StoredWhileLoaded == []C28_Order /\ [][C28_UnloadStep]_vars

\* the entry was set up, its first refresh succeeded, and it was unloaded
C28_Witness ==
    /\ entry_pc = "not_loaded" /\ ~Stored /\ ~IsNone(data) /\ platforms = {}
    /\ ent_reg # {}

AddSensorsOff == ~Option(entry, "add_sensors", DEFAULT_ADD_SENSORS)

\* C29: for every sensor description generate_sensor_unique_id, computed from
\* the coordinator's location and display name, equals the unique id the
\* sensor entity of that description gives itself; and when the add-sensors
\* option is off, no sensor entity of the entry is in the entity registry once
\* the entry is set up.
C29_SensorIdsAgree ==
    entry_pc # "none"
        => /\ \A d \in DOMAIN SENSOR_DESCRIPTIONS :
                 generate_sensor_unique_id(EntryConfig(entry), SENSOR_DESCRIPTIONS[d])
                     = SensorUniqueId(entry.data.name, EntryConfig(entry).location,
                                      SENSOR_DESCRIPTIONS[d])
           /\ (entry_pc = "loaded" /\ AddSensorsOff)
                 => ent_reg \cap SensorEntities(entry, config) = {}

\* the entry is set up with the add-sensors option off: the sensor platform
\* is set up and the registry holds none of its entities
C29_Witness ==
    /\ entry_pc = "loaded" /\ AddSensorsOff /\ "sensor" \in platforms
    /\ ent_reg = {}
    /\ generate_sensor_unique_id(config, SENSOR_DESCRIPTIONS[5]) = "18.1,2.35_Home UV PM 2.5"

====
